---------------------------- MODULE Spec2Model ----------------------------
(***************************************************************************)
(* Minimax tree search of src/minimax.py: depth-limited minimax, the       *)
(* probability-limited variant, the best-move selector find_best_move and  *)
(* the self-play loop of __main__.                                         *)
(*                                                                         *)
(* The rules engine (chess.Board) and the evaluators are collaborators the *)
(* source only calls.  A game is a finite graph of positions; a board is   *)
(* the starting position plus the stack of moves pushed on it.  Scores are *)
(* Python floats in the source; here every score is kept multiplied by     *)
(* BASE, so that (max_score - depth)/max_score is the integer BASE - depth *)
(* and the raw sentinel max_score is BASE * BASE.  The scaling is strictly *)
(* monotone, so every comparison of the source is preserved.               *)
(***************************************************************************)
EXTENDS Integers, Sequences, FiniteSets

VARIABLES
    game,        \* the position graph behind the board (fixed during a run)
    entry,       \* which entry point this run calls
    evaluators,  \* __main__: the evaluator bound to each side
    board,       \* chess.Board: [root, move_stack]
    stack,       \* the Python call stack of search frames
    ret,         \* the value handed back by the call that has just returned
    status,      \* "running", "done", "RecursionError" or "push(None)"
    score_board, \* __main__: the tally, in half points
    i,           \* __main__: index of the current game
    ply,         \* __main__: moves applied in the current game (history)
    mates,       \* history: every checkmate minimax has scored in this run
    args         \* history: the frame of the call this run entered with

vars == <<game, entry, evaluators, board, stack, ret, status, score_board, i, ply, mates, args>>

----------------------------------------------------------------------------
(* Program constants *)

\* max_score = 10000.0
BASE == 10000

\* best_move = None
NoMove == 0

\* the max_depth __main__ passes to find_best_move
MainDepth == 1

\* The raw sentinel +max_score / -max_score, on the scale of the scores.
Sentinel == BASE * BASE

----------------------------------------------------------------------------
(* Bounds of the model *)

\* max_depth ranges over 0..MaxDepth
MaxDepth == 3

\* num_games of __main__ (10 in the source), scaled down
NumGames == 2

\* the interpreter's recursion limit (1000 by default), scaled down
MaxRecursion == 12

----------------------------------------------------------------------------
(* The game-state adapter: positions, turn, legal moves, terminal status.  *)
(* Odd positions have White to move, even ones Black; every move leads to  *)
(* a position of the other parity, as board.turn flips on every push.      *)

Pos(m, o, c) == [moves |-> m, over |-> o, mate |-> c]
Live(m) == Pos(m, FALSE, FALSE)
Checkmate == Pos(<<>>, TRUE, TRUE)
Stalemate == Pos(<<>>, TRUE, FALSE)
DrawnWith(m) == Pos(m, TRUE, FALSE)

\* White to move at 1 mates at once (1 -> 2) or in three plies (1 -> 4 -> 3 -> 2).
GWhiteMates == << Live(<<4, 2>>), Checkmate, Live(<<2>>), Live(<<3>>) >>
\* Black to move at 2 mates at once (2 -> 1) or in three plies (2 -> 3 -> 4 -> 1).
GBlackMates == << Checkmate, Live(<<1, 3>>), Live(<<4>>), Live(<<1>>) >>
\* Stalemate at 3, a draw that still has legal moves (repetition, material) at 4.
GDraws == << Live(<<2, 4>>), Live(<<3>>), Stalemate, DrawnWith(<<3>>) >>
\* Position 1 branches, then 2 <-> 3 is a cycle of single-move positions.
GSingleCycle == << Live(<<2, 4>>), Live(<<3>>), Live(<<2>>), Live(<<3>>) >>
\* Every position has two moves and nothing ever ends.
GBranchCycle == << Live(<<2, 4>>), Live(<<1, 3>>), Live(<<2, 4>>), Live(<<3, 1>>) >>
\* The cycle 1 <-> 2 passes through the two-move position 2.
GMixedCycle == << Live(<<2>>), Live(<<1, 3>>), Live(<<4>>), Checkmate >>
\* Scripted: every play from 1 ends with White mating after 3 plies.
GScriptWhite == << Live(<<2>>), Live(<<3>>), Live(<<4>>), Checkmate >>
\* Scripted: every play from 1 ends with Black mating after 2 plies.
GScriptBlack == << Live(<<2, 4>>), Live(<<3>>), Checkmate, Live(<<3>>) >>
\* White chooses between a stalemate line and a mate.
GMixed == << Live(<<2, 4>>), Live(<<3>>), Stalemate, Checkmate >>

Games == {GWhiteMates, GBlackMates, GDraws, GSingleCycle, GBranchCycle,
          GMixedCycle, GScriptWhite, GScriptBlack, GMixed}

Nodes(g) == DOMAIN g

\* board.turn of a position: TRUE is White
TurnAt(n) == n % 2 = 1

\* chess.Board(): the starting position, White to move
StartPosition == 1

NewBoard(r) == [root |-> r, move_stack |-> <<>>]

\* the position the board is in
Here(b) == IF b.move_stack = <<>> THEN b.root ELSE b.move_stack[Len(b.move_stack)]

Turn(b) == TurnAt(Here(b))
LegalMoves(g, b) == g[Here(b)].moves
IsGameOver(g, b) == g[Here(b)].over
IsCheckmate(g, b) == g[Here(b)].mate
Push(b, m) == [b EXCEPT !.move_stack = Append(@, m)]
Pop(b) == [b EXCEPT !.move_stack = SubSeq(@, 1, Len(@) - 1)]
Reset(b) == [b EXCEPT !.move_stack = <<>>]

\* What the rules engine guarantees of every position: a move hands the turn
\* over, a checkmate is a game over without legal moves, and a position that
\* is not over has a legal move.
WellFormed(g) ==
    \A n \in Nodes(g) :
        /\ \A x \in DOMAIN g[n].moves : g[n].moves[x] \in Nodes(g) /\ TurnAt(g[n].moves[x]) # TurnAt(n)
        /\ g[n].mate => g[n].over /\ g[n].moves = <<>>
        /\ ~g[n].over => g[n].moves # <<>>

----------------------------------------------------------------------------
(* Evaluators: position -> score (scaled by BASE).  The first five stay in *)
(* [-1, 1]; EvalMaterial leaves it the way naive_evaluation does (40/22    *)
(* for a side 40 points up); the last two return -max_score and +max_score. *)

EvalZero == <<0, 0, 0, 0>>
EvalOne == <<BASE, BASE, BASE, BASE>>
EvalMinusOne == <<-BASE, -BASE, -BASE, -BASE>>
EvalMixed == <<-5000, 2500, 5000, -2500>>
EvalMixedNeg == <<5000, -2500, -5000, 2500>>
EvalMaterial == <<18182, -18182, 4545, 0>>
EvalLow == <<-Sentinel, -Sentinel, -Sentinel, -Sentinel>>
EvalHigh == <<Sentinel, Sentinel, Sentinel, Sentinel>>

Evaluators == {EvalZero, EvalOne, EvalMinusOne, EvalMixed, EvalMixedNeg, EvalMaterial,
               EvalLow, EvalHigh}

\* evaluator(board)
Evaluate(ev, b) == ev[Here(b)]

\* every value of the evaluator lies in [-1, 1]
InUnitRange(ev) == \A n \in DOMAIN ev : -BASE <= ev[n] /\ ev[n] <= BASE

----------------------------------------------------------------------------
(* Scores *)

\* A faulty MateScore: the two signs exchanged.
MateScoreSignsSwapped(color, depth) == IF color THEN BASE - depth ELSE -(BASE + depth)

\* the checkmate score of minimax at `depth`, `color` being the side to move
MateScore(color, depth) == IF color THEN -(BASE + depth) ELSE BASE - depth

\* the checkmate score of probabilistic_minimax
ProbaMateScore(color) == IF color THEN -BASE ELSE BASE

DrawScore == 0

\* A faulty InitialBest: both sides start from -max_score.
InitialBestAlwaysLow(color) == -Sentinel

\* best_score before the loop
InitialBest(color) == IF color THEN -Sentinel ELSE Sentinel

\* max(best_score, v) for White, min(best_score, v) for Black
Combine(color, best, v) ==
    IF color THEN (IF v > best THEN v ELSE best)
             ELSE (IF v < best THEN v ELSE best)

\* A faulty Improves: >= and <= in place of > and <.
ImprovesOrTies(color, score, best) == IF color THEN score >= best ELSE score <= best

\* find_best_move: the strict comparison that replaces the best move
Improves(color, score, best) == IF color THEN score > best ELSE score < best

\* torch.squeeze(torch.Tensor([best_score])): a 0-dimensional float32 tensor
ToTensor(x) == [float32 |-> x]

\* Exploration budgets are fractions <<numerator, denominator>>.  No position
\* of the games above has more than two legal moves, so every budget is a power
\* of two and the float division and comparison of the source are exact.
FracLess(a, b) == a[1] * b[2] < b[1] * a[2]
\* A faulty ChildBudget: the budget is handed down undivided.
ChildBudgetUndivided(p, n) == p

\* proba_depth / num_moves
ChildBudget(p, n) == <<p[1], p[2] * n>>

ProbaBudgets == {<<1, 1>>, <<2, 1>>}
MinProbaDepths == {<<0, 1>>, <<1, 4>>, <<1, 2>>, <<2, 1>>}

----------------------------------------------------------------------------
(* Call frames *)

Frame(fn, b, depth, max_depth, proba, min_proba, color, ev) ==
    [fn |-> fn, at |-> "entry", depth |-> depth, max_depth |-> max_depth,
     proba |-> proba, min_proba |-> min_proba, color |-> color, evaluator |-> ev,
     moves |-> <<>>, k |-> 1, num_moves |-> 0,
     best_score |-> 0, best_move |-> NoMove,
     board0 |-> b, calls |-> <<>>, npush |-> 0, npop |-> 0]

MinimaxCall(b, depth, max_depth, color, ev) ==
    Frame("minimax", b, depth, max_depth, <<0, 1>>, <<0, 1>>, color, ev)

ProbaCall(b, proba, min_proba, color, ev) ==
    Frame("probabilistic_minimax", b, 0, 0, proba, min_proba, color, ev)

FindCall(b, max_depth, ev) ==
    Frame("find_best_move", b, 0, max_depth, <<0, 1>>, <<0, 1>>, Turn(b), ev)

NoFrame == Frame("none", NewBoard(StartPosition), 0, 0, <<0, 1>>, <<0, 1>>, TRUE, EvalZero)
NoRet == [valid |-> FALSE, val |-> 0, move |-> NoMove, frame |-> NoFrame]

Top == stack[Len(stack)]
Running(fn, at) == status = "running" /\ stack # <<>> /\ Top.fn = fn /\ Top.at = at

\* return v (and move m) from the top frame
Return(v, m) ==
    /\ stack' = SubSeq(stack, 1, Len(stack) - 1)
    /\ ret' = [valid |-> TRUE, val |-> v, move |-> m, frame |-> Top]
    /\ status' = IF Len(stack) = 1 /\ entry # "main" THEN "done" ELSE status

\* the top frame makes its k-th move and calls `callee` on the resulting board
CallChild(callee) ==
    /\ board' = Push(board, Top.moves[Top.k])
    /\ stack' = Append([stack EXCEPT ![Len(stack)] =
                          [@ EXCEPT !.at = "call", !.npush = @ + 1]], callee)
    /\ ret' = NoRet

\* history: the call that has just returned, as its caller records it
CallRecord == [move |-> Top.moves[Top.k], depth |-> ret.frame.depth,
               color |-> ret.frame.color, score |-> ret.val]

----------------------------------------------------------------------------
(* minimax *)

MinimaxGameOver ==
    /\ Running("minimax", "entry")
    /\ IsGameOver(game, board)
    /\ IF IsCheckmate(game, board)
         THEN /\ Return(MateScore(Top.color, Top.depth), NoMove)
              /\ mates' = mates \cup {[loser |-> Top.color, depth |-> Top.depth,
                                       score |-> MateScore(Top.color, Top.depth)]}
         ELSE /\ Return(DrawScore, NoMove)
              /\ mates' = mates
    /\ UNCHANGED <<args, game, entry, evaluators, board, score_board, i, ply>>

\* A faulty AtFrontier: the evaluator is called one level too deep.
AtFrontierOneDeeper(f) == f.depth = f.max_depth + 1

\* depth == max_depth
AtFrontier(f) == f.depth = f.max_depth

MinimaxEvaluate ==
    /\ Running("minimax", "entry")
    /\ ~IsGameOver(game, board)
    /\ AtFrontier(Top)
    /\ Return(Evaluate(Top.evaluator, board), NoMove)
    /\ UNCHANGED <<args, game, entry, evaluators, board, score_board, i, ply, mates>>

MinimaxExpand ==
    /\ Running("minimax", "entry")
    /\ ~IsGameOver(game, board)
    /\ ~AtFrontier(Top)
    /\ stack' = [stack EXCEPT ![Len(stack)] =
                   [@ EXCEPT !.at = "loop", !.best_score = InitialBest(Top.color),
                             !.moves = LegalMoves(game, board), !.k = 1]]
    /\ UNCHANGED <<args, game, entry, evaluators, board, ret, status, score_board, i, ply, mates>>

MinimaxPush ==
    /\ Running("minimax", "loop")
    /\ Top.k <= Len(Top.moves)
    /\ CallChild(MinimaxCall(board', Top.depth + 1, Top.max_depth, Turn(board'), Top.evaluator))
    /\ UNCHANGED <<args, game, entry, evaluators, status, score_board, i, ply, mates>>

\* A faulty Undo: board.pop() left out.
UndoForgotten(b) == b

\* the board after the undo that follows a recursive call: board.pop()
Undo(b) == Pop(b)

MinimaxPop ==
    /\ Running("minimax", "call")
    /\ ret.valid
    /\ board' = Undo(board)
    /\ stack' = [stack EXCEPT ![Len(stack)] =
                   [@ EXCEPT !.at = "loop", !.k = @ + 1,
                             !.best_score = Combine(Top.color, @, ret.val),
                             !.calls = Append(@, CallRecord),
                             !.npush = @ + ret.frame.npush,
                             !.npop = @ + ret.frame.npop + 1]]
    /\ ret' = NoRet
    /\ UNCHANGED <<args, game, entry, evaluators, status, score_board, i, ply, mates>>

MinimaxReturn ==
    /\ Running("minimax", "loop")
    /\ Top.k > Len(Top.moves)
    /\ Return(Top.best_score, NoMove)
    /\ UNCHANGED <<args, game, entry, evaluators, board, score_board, i, ply, mates>>

----------------------------------------------------------------------------
(* probabilistic_minimax *)

ProbaGameOver ==
    /\ Running("probabilistic_minimax", "entry")
    /\ IsGameOver(game, board)
    /\ IF IsCheckmate(game, board)
         THEN Return(ProbaMateScore(Top.color), NoMove)
         ELSE Return(DrawScore, NoMove)
    /\ UNCHANGED <<args, game, entry, evaluators, board, score_board, i, ply, mates>>

\* proba_depth < min_proba_depth
BudgetSpent(f) == FracLess(f.proba, f.min_proba)

ProbaEvaluate ==
    /\ Running("probabilistic_minimax", "entry")
    /\ ~IsGameOver(game, board)
    /\ BudgetSpent(Top)
    /\ Return(Evaluate(Top.evaluator, board), NoMove)
    /\ UNCHANGED <<args, game, entry, evaluators, board, score_board, i, ply, mates>>

ProbaExpand ==
    /\ Running("probabilistic_minimax", "entry")
    /\ ~IsGameOver(game, board)
    /\ ~BudgetSpent(Top)
    /\ stack' = [stack EXCEPT ![Len(stack)] =
                   [@ EXCEPT !.at = "loop", !.best_score = InitialBest(Top.color),
                             !.num_moves = Len(LegalMoves(game, board)),
                             !.moves = LegalMoves(game, board), !.k = 1]]
    /\ UNCHANGED <<args, game, entry, evaluators, board, ret, status, score_board, i, ply, mates>>

ProbaPush ==
    /\ Running("probabilistic_minimax", "loop")
    /\ Top.k <= Len(Top.moves)
    /\ Len(stack) < MaxRecursion
    /\ CallChild(ProbaCall(board', ChildBudget(Top.proba, Top.num_moves), Top.min_proba,
                           Turn(board'), Top.evaluator))
    /\ UNCHANGED <<args, game, entry, evaluators, status, score_board, i, ply, mates>>

\* The recursive call that exceeds the interpreter's recursion limit raises
\* RecursionError; nothing catches it, so no frame undoes its move.
ProbaRecursionError ==
    /\ Running("probabilistic_minimax", "loop")
    /\ Top.k <= Len(Top.moves)
    /\ Len(stack) >= MaxRecursion
    /\ board' = Push(board, Top.moves[Top.k])
    /\ stack' = <<>>
    /\ ret' = NoRet
    /\ status' = "RecursionError"
    /\ UNCHANGED <<args, game, entry, evaluators, score_board, i, ply, mates>>

ProbaPop ==
    /\ Running("probabilistic_minimax", "call")
    /\ ret.valid
    /\ board' = Undo(board)
    /\ stack' = [stack EXCEPT ![Len(stack)] =
                   [@ EXCEPT !.at = "loop", !.k = @ + 1,
                             !.best_score = Combine(Top.color, @, ret.val),
                             !.calls = Append(@, CallRecord),
                             !.npush = @ + ret.frame.npush,
                             !.npop = @ + ret.frame.npop + 1]]
    /\ ret' = NoRet
    /\ UNCHANGED <<args, game, entry, evaluators, status, score_board, i, ply, mates>>

ProbaReturn ==
    /\ Running("probabilistic_minimax", "loop")
    /\ Top.k > Len(Top.moves)
    /\ Return(Top.best_score, NoMove)
    /\ UNCHANGED <<args, game, entry, evaluators, board, score_board, i, ply, mates>>

----------------------------------------------------------------------------
(* find_best_move *)

FindStart ==
    /\ Running("find_best_move", "entry")
    /\ stack' = [stack EXCEPT ![Len(stack)] =
                   [@ EXCEPT !.at = "loop", !.best_move = NoMove,
                             !.moves = LegalMoves(game, board), !.k = 1,
                             !.best_score =
                                 IF Len(LegalMoves(game, board)) > 0
                                   THEN InitialBest(Turn(board))
                                   ELSE InitialBest(Turn(board)) \div BASE]]
    /\ UNCHANGED <<args, game, entry, evaluators, board, ret, status, score_board, i, ply, mates>>

FindPush ==
    /\ Running("find_best_move", "loop")
    /\ Top.k <= Len(Top.moves)
    /\ CallChild(MinimaxCall(board', 0, Top.max_depth, Turn(board'), Top.evaluator))
    /\ UNCHANGED <<args, game, entry, evaluators, status, score_board, i, ply, mates>>

FindPop ==
    /\ Running("find_best_move", "call")
    /\ ret.valid
    /\ board' = Undo(board)
    /\ LET better == Improves(Turn(board'), ret.val, Top.best_score)
       IN  stack' = [stack EXCEPT ![Len(stack)] =
                       [@ EXCEPT !.at = "loop", !.k = @ + 1,
                                 !.best_score = IF better THEN ret.val ELSE @,
                                 !.best_move = IF better THEN Top.moves[Top.k] ELSE @,
                                 !.calls = Append(@, CallRecord),
                                 !.npush = @ + ret.frame.npush,
                                 !.npop = @ + ret.frame.npop + 1]]
    /\ ret' = NoRet
    /\ UNCHANGED <<args, game, entry, evaluators, status, score_board, i, ply, mates>>

FindReturn ==
    /\ Running("find_best_move", "loop")
    /\ Top.k > Len(Top.moves)
    /\ Return(ToTensor(Top.best_score), Top.best_move)
    /\ UNCHANGED <<args, game, entry, evaluators, board, score_board, i, ply, mates>>

----------------------------------------------------------------------------
(* __main__: the self-play loop.  The tally is kept in half points. *)

\* score_board[...] += 1
WinPoints == 2
\* score_board[...] += 0.5
DrawPoints == 1

AtMainLoop == status = "running" /\ entry = "main" /\ stack = <<>>

\* the evaluator bound to the side to move
SideEvaluator(b) == IF Turn(b) THEN evaluators.White ELSE evaluators.Black

MainSelect ==
    /\ AtMainLoop
    /\ ~ret.valid
    /\ i < NumGames
    /\ ~IsGameOver(game, board)
    /\ stack' = << FindCall(board, MainDepth, SideEvaluator(board)) >>
    /\ UNCHANGED <<args, game, entry, evaluators, board, ret, status, score_board, i, ply, mates>>

\* board.push(move) with the move find_best_move returned
MainPush ==
    /\ AtMainLoop
    /\ ret.valid
    /\ ret.move # NoMove
    /\ board' = Push(board, ret.move)
    /\ ply' = ply + 1
    /\ ret' = NoRet
    /\ UNCHANGED <<args, game, entry, evaluators, stack, status, score_board, i, mates>>

\* board.push(None): the loop hands None to the rules engine, and what
\* happens next is the engine's affair, not this program's
MainPushNone ==
    /\ AtMainLoop
    /\ ret.valid
    /\ ret.move = NoMove
    /\ status' = "push(None)"
    /\ UNCHANGED <<args, game, entry, evaluators, board, stack, ret, score_board, i, ply, mates>>

\* A faulty Tally: the side to move, which was mated, is credited.
TallyCreditsLoser(sb, g, b) ==
    IF IsCheckmate(g, b)
      THEN (IF Turn(b) THEN [sb EXCEPT !.White = @ + WinPoints]
                       ELSE [sb EXCEPT !.Black = @ + WinPoints])
      ELSE [White |-> sb.White + DrawPoints, Black |-> sb.Black + DrawPoints]

\* the tally after a game that ended on board b
Tally(sb, g, b) ==
    IF IsCheckmate(g, b)
      THEN (IF Turn(b) THEN [sb EXCEPT !.Black = @ + WinPoints]
                       ELSE [sb EXCEPT !.White = @ + WinPoints])
      ELSE [White |-> sb.White + DrawPoints, Black |-> sb.Black + DrawPoints]

\* the board the next game starts on
NextGameBoard(b) == Reset(b)

MainClassify ==
    /\ AtMainLoop
    /\ ~ret.valid
    /\ i < NumGames
    /\ IsGameOver(game, board)
    /\ score_board' = Tally(score_board, game, board)
    /\ board' = NextGameBoard(board)
    /\ i' = i + 1
    /\ ply' = 0
    /\ status' = IF i + 1 = NumGames THEN "done" ELSE status
    /\ UNCHANGED <<args, game, entry, evaluators, stack, ret, mates>>

----------------------------------------------------------------------------
(* Shape of the position graph *)

Range(s) == {s[x] : x \in DOMAIN s}

\* the positions one move away; with `single`, only through single-move positions
Succ(g, n, single) ==
    IF g[n].over \/ (single /\ Len(g[n].moves) # 1) THEN {} ELSE Range(g[n].moves)

RECURSIVE ReachIn(_, _, _, _)
ReachIn(g, S, single, k) ==
    IF k = 0 THEN S
    ELSE ReachIn(g, S \cup UNION {Succ(g, n, single) : n \in S}, single, k - 1)

Reach(g, r) == ReachIn(g, {r}, FALSE, Cardinality(Nodes(g)))
OnCycle(g, n, single) ==
    n \in ReachIn(g, Succ(g, n, single), single, Cardinality(Nodes(g)))

\* every play from r ends: the rules engine ends every game of chess
FinitePlay(g, r) == \A n \in Reach(g, r) : ~OnCycle(g, n, FALSE)

----------------------------------------------------------------------------
(* Specifications *)

InitCommon ==
    /\ game \in {g \in Games : WellFormed(g)}
    /\ ret = NoRet
    /\ status = "running"
    /\ score_board = [White |-> 0, Black |-> 0]
    /\ i = 0
    /\ ply = 0
    /\ mates = {}

InitMinimax ==
    /\ InitCommon
    /\ entry = "minimax"
    /\ evaluators = [White |-> EvalZero, Black |-> EvalZero]
    /\ \E r \in Nodes(game) : board = NewBoard(r)
    /\ \E md \in 0..MaxDepth, d \in 0..MaxDepth, ev \in Evaluators :
          /\ d <= md
          /\ stack = << MinimaxCall(board, d, md, Turn(board), ev) >>
    /\ args = stack[1]

InitProba ==
    /\ InitCommon
    /\ entry = "probabilistic_minimax"
    /\ evaluators = [White |-> EvalZero, Black |-> EvalZero]
    /\ \E r \in Nodes(game) : board = NewBoard(r)
    /\ \E p \in ProbaBudgets, mp \in MinProbaDepths, ev \in Evaluators :
          stack = << ProbaCall(board, p, mp, Turn(board), ev) >>
    /\ args = stack[1]

InitFind ==
    /\ InitCommon
    /\ entry = "find_best_move"
    /\ evaluators = [White |-> EvalZero, Black |-> EvalZero]
    /\ \E r \in Nodes(game) : board = NewBoard(r)
    /\ \E md \in 0..MaxDepth, ev \in Evaluators :
          stack = << FindCall(board, md, ev) >>
    /\ args = stack[1]

InitMain ==
    /\ InitCommon
    /\ entry = "main"
    /\ FinitePlay(game, StartPosition)
    /\ evaluators \in [White : Evaluators, Black : Evaluators]
    /\ board = NewBoard(StartPosition)
    /\ stack = <<>>
    /\ args = NoFrame

Init == InitMinimax \/ InitProba \/ InitFind \/ InitMain

NextMinimax ==
    \/ MinimaxGameOver
    \/ MinimaxEvaluate
    \/ MinimaxExpand
    \/ MinimaxPush
    \/ MinimaxPop
    \/ MinimaxReturn

NextProba ==
    \/ ProbaGameOver
    \/ ProbaEvaluate
    \/ ProbaExpand
    \/ ProbaPush
    \/ ProbaRecursionError
    \/ ProbaPop
    \/ ProbaReturn

NextFind ==
    \/ FindStart
    \/ FindPush
    \/ FindPop
    \/ FindReturn

NextMain ==
    \/ MainSelect
    \/ MainPush
    \/ MainPushNone
    \/ MainClassify

Next == NextMinimax \/ NextProba \/ NextFind \/ NextMain

Spec == Init /\ [][Next]_vars

\* probabilistic_minimax alone; a call that can take a step takes it
ProbaSpec == InitProba /\ [][NextProba]_vars /\ WF_vars(NextProba)

----------------------------------------------------------------------------
(* Properties *)

Returned(fn) == ret.valid /\ ret.frame.fn = fn

\* the scores a frame received from its recursive calls, in call order
Scores(f) == {f.calls[j].score : j \in DOMAIN f.calls}
Highest(S) == CHOOSE x \in S : \A y \in S : y <= x
Lowest(S) == CHOOSE x \in S : \A y \in S : x <= y
\* the best of a set of scores for the side `color`
BestFor(color, S) == IF color THEN Highest(S) ELSE Lowest(S)
\* the first call of f that scored v
FirstWith(f, v) ==
    CHOOSE j \in DOMAIN f.calls :
        f.calls[j].score = v /\ \A k \in 1..(j - 1) : f.calls[k].score # v

\* `color` strictly prefers score x to score y: White the higher, Black the lower
Prefers(color, x, y) == IF color THEN x > y ELSE x < y

\* every evaluator value of the model inside [-1, 1], and the draw score
UnitRangeScores ==
    {DrawScore} \cup UNION {Range(ev) : ev \in {e \in Evaluators : InUnitRange(e)}}

\* the legal moves of b that checkmate at once
MatingMoves(g, b) == {m \in Range(LegalMoves(g, b)) : g[m].mate}

\* C1: when minimax, probabilistic_minimax or find_best_move returns, the board
\* is the board the call was entered with, and the call and the calls below it
\* have made as many pops as pushes.
C1_BoardRestored ==
    ret.valid => board = ret.frame.board0 /\ ret.frame.npush = ret.frame.npop

C1_Witness ==
    /\ Returned("find_best_move")
    /\ ret.frame.npush > Len(ret.frame.moves)
    /\ Len(ret.frame.moves) >= 2

\* C2: with a legal move that checkmates at once and evaluator values in
\* [-1, 1], find_best_move returns a mating move and the score of an immediate
\* mate by the side to move (the largest winning magnitude there is).
C2_MatingMoveChosen ==
    (/\ Returned("find_best_move")
     /\ InUnitRange(ret.frame.evaluator)
     /\ MatingMoves(game, board) # {})
    => /\ ret.move \in MatingMoves(game, board)
       /\ ret.val = ToTensor(MateScore(~ret.frame.color, 0))

\* C3: of two checkmates of the same side scored at different depths, the
\* winning side strictly prefers the one at the smaller depth and the losing
\* side strictly prefers the one at the larger depth.
C3_FasterMatePreferred ==
    \A a, b \in mates :
        (a.loser = b.loser /\ a.depth < b.depth)
        => /\ Prefers(~a.loser, a.score, b.score)
           /\ Prefers(a.loser, b.score, a.score)

\* C4 as claimed: every checkmate score minimax returns is strictly better for
\* the winner than the draw score and every evaluator value in [-1, 1].
C4_StrictDominance ==
    \A m \in mates : \A e \in UnitRangeScores :
        IF m.loser THEN m.score < e ELSE m.score > e

\* C4 as amended: a checkmate score is strictly better for the winner than a
\* draw; Black's win -(BASE + d)/BASE is at most every value in [-1, 1], and
\* strictly below it when d >= 1; White's win (BASE - d)/BASE is at least every
\* value in [-1, 1] only at d = 0, and below 1 when d >= 1.
C4_Dominance ==
    \A m \in mates :
        IF m.loser
          THEN /\ m.score < DrawScore
               /\ \A e \in UnitRangeScores : m.score <= e /\ (m.depth >= 1 => m.score < e)
          ELSE /\ m.score > DrawScore
               /\ m.depth = 0 => \A e \in UnitRangeScores : m.score >= e
               /\ m.depth >= 1 => m.score < BASE

C4_Witness ==
    \E a, b \in mates : ~a.loser /\ a.depth = 0 /\ ~b.loser /\ b.depth >= 1

\* C5 as claimed: minimax(state, d, d, side, eval) returns eval(state) and
\* pushes no move, for every state.
C5_ZeroWidthAlways ==
    (Returned("minimax") /\ ret.frame.depth = ret.frame.max_depth)
    => ret.val = Evaluate(ret.frame.evaluator, board) /\ ret.frame.npush = 0

\* C5 as amended: the same for every state that is not game over.
C5_ZeroWidth ==
    (/\ Returned("minimax")
     /\ ret.frame.depth = ret.frame.max_depth
     /\ ~IsGameOver(game, ret.frame.board0))
    => ret.val = Evaluate(ret.frame.evaluator, ret.frame.board0) /\ ret.frame.npush = 0

C5_Witness ==
    /\ Returned("minimax")
    /\ ret.frame.depth = ret.frame.max_depth
    /\ ret.frame.depth >= 1
    /\ ~IsGameOver(game, ret.frame.board0)
    /\ ret.val # 0

\* every play from n is k plies long and ends with `winner` having mated
RECURSIVE AllPlaysMate(_, _, _, _)
AllPlaysMate(g, n, winner, k) ==
    IF k = 0
      THEN g[n].mate /\ TurnAt(n) # winner
      ELSE /\ ~g[n].over
           /\ \A m \in Range(g[n].moves) : AllPlaysMate(g, m, winner, k - 1)

\* the adapter is scripted for `winner`
Scripted(g, winner) ==
    \E k \in 1..Cardinality(Nodes(g)) : AllPlaysMate(g, StartPosition, winner, k)

\* C6: on an adapter scripted for one side, every finished game is a win of
\* that side and none of the other (N wins to 0 after the N games), and every
\* game starts from the starting position.
C6_ScriptedTally ==
    \A winner \in BOOLEAN :
        (entry = "main" /\ Scripted(game, winner))
        => /\ score_board = IF winner THEN [White |-> i * WinPoints, Black |-> 0]
                                      ELSE [White |-> 0, Black |-> i * WinPoints]
           /\ status = "done" => i = NumGames
           /\ (AtMainLoop /\ ~ret.valid /\ ply = 0) => board = NewBoard(StartPosition)

C6_Witness ==
    /\ entry = "main"
    /\ status = "done"
    /\ Scripted(game, FALSE)
    /\ score_board = [White |-> 0, Black |-> NumGames * WinPoints]

\* min_proba_depth > 0
MinProbaPositive == args.min_proba[1] > 0

\* every play from n reaches a position with two or more legal moves
RECURSIVE EveryPathBranches(_, _, _)
EveryPathBranches(g, n, seen) ==
    \/ Len(g[n].moves) >= 2
    \/ /\ ~g[n].over
       /\ Len(g[n].moves) = 1
       /\ g[n].moves[1] \notin seen
       /\ EveryPathBranches(g, g[n].moves[1], seen \cup {n})

\* no cycle of single-move positions can be reached: every endless play passes
\* through positions with two or more legal moves again and again
NoSingleMoveCycle(g, r) == \A n \in Reach(g, r) : ~OnCycle(g, n, TRUE)

\* C7 as claimed: with min_proba_depth > 0, on a game in which every play from
\* the root has a position with two or more legal moves, the recursion of
\* probabilistic_minimax never outgrows the interpreter's stack.
C7_OneBranchSuffices ==
    (MinProbaPositive /\ EveryPathBranches(game, args.board0.root, {}))
    => status # "RecursionError"

\* C7 as amended: with min_proba_depth > 0, on a game in which no endless play
\* from the root ends up in single-move positions only, probabilistic_minimax
\* returns.
C7_Terminates ==
    (MinProbaPositive /\ NoSingleMoveCycle(game, args.board0.root))
    => <>(status = "done")

C7_Witness ==
    /\ status = "done"
    /\ MinProbaPositive
    /\ NoSingleMoveCycle(game, args.board0.root)
    /\ OnCycle(game, args.board0.root, FALSE)
    /\ ret.frame.npush >= 6

\* C8: the self-play loop never hands None to board.push.
C8_NeverPushesNone == status # "push(None)"

\* score v is strictly above -max_score (White) or below +max_score (Black)
BeyondSentinel(color, v) == IF color THEN v > -Sentinel ELSE v < Sentinel

\* what C9 says of a find_best_move frame f that returns
FirstBestReturned(f) ==
    LET best == BestFor(f.color, Scores(f))
    IN  /\ ret.move = f.moves[FirstWith(f, best)]
        /\ ret.val = ToTensor(best)

\* find_best_move searched every root move from depth 0 for the side to move
\* after the move
RootMovesSearched(f) ==
    /\ f.color = Turn(f.board0)
    /\ f.moves = LegalMoves(game, f.board0)
    /\ Len(f.calls) = Len(f.moves)
    /\ \A j \in DOMAIN f.calls :
          /\ f.calls[j].move = f.moves[j]
          /\ f.calls[j].depth = 0
          /\ f.calls[j].color = TurnAt(f.moves[j])

\* C9 as claimed: with a legal move at the root, find_best_move returns the
\* first move whose score is the best for the side to move, and that score.
C9_FirstBestAlways ==
    (Returned("find_best_move") /\ Len(LegalMoves(game, board)) >= 1)
    => RootMovesSearched(ret.frame) /\ FirstBestReturned(ret.frame)

\* C9 as amended: the same when the best score is strictly beyond the initial
\* -max_score (White) or +max_score (Black); otherwise no move is returned,
\* with that initial score.
C9_FirstBest ==
    (Returned("find_best_move") /\ Len(LegalMoves(game, board)) >= 1)
    => LET f == ret.frame
       IN  /\ RootMovesSearched(f)
           /\ IF BeyondSentinel(f.color, BestFor(f.color, Scores(f)))
                THEN FirstBestReturned(f)
                ELSE /\ ret.move = NoMove
                     /\ ret.val = ToTensor(IF f.color THEN -Sentinel ELSE Sentinel)

C9_Witness ==
    /\ Returned("find_best_move")
    /\ Len(ret.frame.calls) = 2
    /\ ret.frame.calls[1].score = ret.frame.calls[2].score
    /\ ret.move = ret.frame.moves[1]

\* C10: an expanded minimax node with a legal move and evaluator values in
\* [-1, 1] returns the maximum (White) or minimum (Black) of the values its
\* children returned, never the -max_score or +max_score it started from.
C10_NoSentinelLeak ==
    (/\ Returned("minimax")
     /\ ret.frame.at = "loop"
     /\ Len(ret.frame.moves) >= 1
     /\ InUnitRange(ret.frame.evaluator))
    => /\ Len(ret.frame.calls) = Len(ret.frame.moves)
       /\ ret.val = BestFor(ret.frame.color, Scores(ret.frame))
       /\ ret.val # -Sentinel
       /\ ret.val # Sentinel

C10_Witness ==
    /\ Returned("minimax")
    /\ ret.frame.at = "loop"
    /\ ~ret.frame.color
    /\ Len(ret.frame.moves) = 2
    /\ ret.frame.calls[1].score < ret.frame.calls[2].score
    /\ InUnitRange(ret.frame.evaluator)

=============================================================================
